---- MODULE Spec2Model ----
(***************************************************************************)
(* The concepts dataset: the ingestion script (src/create_duckdb.py) that  *)
(* builds concepts.db, and the read-only query service (src/app/api.py)    *)
(* that serves it.                                                         *)
(*                                                                         *)
(* Strings the code compares, splices or pattern-matches are sequences of  *)
(* one-character strings, so that ordering, quoting and wildcards are      *)
(* computed as the code computes them.                                     *)
(*                                                                         *)
(* Schema note.  The CREATE TABLE of src/create_duckdb.py:20-28 has no     *)
(* has_classifier column, while every query of src/app/api.py that names   *)
(* its columns reads one.  The ingestion part of the model stores the      *)
(* columns the script writes (rows are reduced to wikibase_id and          *)
(* preferred_label, the remaining five being payload no query branches     *)
(* on); the search and batch parts start from a dataset whose rows carry   *)
(* the has_classifier flag the service expects.                            *)
(***************************************************************************)
EXTENDS Integers, Sequences, FiniteSets, TLC

VARIABLES
    json_files,                    \* the input documents, in glob order
    concepts,                      \* table concepts (a set of rows)
    concept_subconcept_relations,  \* table: pairs <<concept_id, subconcept_id>>
    concept_related_relations,     \* table: pairs <<concept_id1, concept_id2>>
    missing_concepts,              \* the script's set of reported ids
    report,                        \* the lines printed after "Done. Found ..."
    pc,                            \* position of the ingestion script
    file_idx,                      \* index of the file the current loop is at
    run,                           \* number of the current ingestion run
    prev_run,                      \* what the previous run left behind
    conn,                          \* the service's global connection
    request,                       \* the request being answered
    response                       \* the answer to it

vars == <<json_files, concepts, concept_subconcept_relations,
          concept_related_relations, missing_concepts, report, pc, file_idx,
          run, prev_run, conn, request, response>>

----------------------------------------------------------------------------
(* Bounds *)

MaxFiles == 2      \* number of input documents
MaxRefs == 1       \* references (subconcept_of + related_concepts) in the input
MaxRuns == 2       \* ingestion runs on the same input

----------------------------------------------------------------------------
(* Strings *)

\* Code point of the characters identifiers are made of.
Ord(c) ==
    CASE c = "0" -> 48
      [] c = "1" -> 49
      [] c = "2" -> 50
      [] c = "Q" -> 81

\* Python's str.__lt__: lexicographic by code point, a proper prefix first.
RECURSIVE StrLess(_, _)
StrLess(s, t) ==
    IF t = <<>> THEN FALSE
    ELSE IF s = <<>> THEN TRUE
    ELSE IF Ord(Head(s)) # Ord(Head(t)) THEN Ord(Head(s)) < Ord(Head(t))
    ELSE StrLess(Tail(s), Tail(t))

Q0 == <<"Q", "0">>
Q1 == <<"Q", "1">>
Q2 == <<"Q", "2">>
Q10 == <<"Q", "1", "0">>

\* The identifiers input documents use ("Q10" sorts before "Q2" as a string).
IdUniverse == {Q1, Q2, Q10}

\* preferred_label values of the input documents.
BuildLabels == {<<"F">>}

RECURSIVE SeqsUpTo(_, _)
\* All sequences over S of length at most n.
SeqsUpTo(S, n) ==
    IF n = 0 THEN {<<>>}
    ELSE LET shorter == SeqsUpTo(S, n - 1)
         IN  shorter \cup {Append(s, x) : s \in {t \in shorter : Len(t) = n - 1}, x \in S}

Range(s) == {s[i] : i \in 1..Len(s)}

----------------------------------------------------------------------------
(* Input documents *)

\* One document of s3-concepts/concepts/*.json, with k references in all.
Documents(k) ==
    {[wikibase_id |-> id, preferred_label |-> l,
      subconcept_of |-> s, related_concepts |-> r] :
        id \in IdUniverse, l \in BuildLabels,
        s \in SeqsUpTo(IdUniverse, k),
        r \in SeqsUpTo(IdUniverse, k)}

RefCount(d) == Len(d.subconcept_of) + Len(d.related_concepts)

RECURSIVE FileLists(_, _)
\* The lists of exactly n documents holding at most k references.
FileLists(n, k) ==
    IF n = 0 THEN {<<>>}
    ELSE UNION {{<<d>> \o rest : rest \in FileLists(n - 1, k - RefCount(d))} :
                    d \in {e \in Documents(k) : RefCount(e) <= k}}

Inputs == UNION {FileLists(n, MaxRefs) : n \in 0..MaxFiles}

----------------------------------------------------------------------------
(* The dataset *)

EmptyDataset == [concepts |-> {}, sub |-> {}, rel |-> {}]

\* A dataset an earlier ingestion of other documents left in concepts.db.
PriorDataset ==
    [concepts |-> {[wikibase_id |-> Q0, preferred_label |-> <<"F">>],
                   [wikibase_id |-> Q1, preferred_label |-> <<"F">>]},
     sub |-> {<<Q1, Q0>>},
     rel |-> {<<Q0, Q1>>}]

ConceptIds(table) == {c.wikibase_id : c \in table}

\* DROP TABLE IF EXISTS (x3), then CREATE TABLE IF NOT EXISTS (x3).
KeepTables(db) == db
DropAndCreateTables(db) == EmptyDataset

\* The row INSERT INTO concepts VALUES (...) writes for a document.
ConceptRow(data) ==
    [wikibase_id |-> data.wikibase_id, preferred_label |-> data.preferred_label]

\* PRIMARY KEY of concepts: the insert raises when the id is there already.
PrimaryKeyViolated(table, data) == data.wikibase_id \in ConceptIds(table)

\* FOREIGN KEY (x2) and UNIQUE of a relationship table: the insert of <<a, b>>
\* raises duckdb.ConstraintException when one of them fails.
ConstraintViolated(cs, table, a, b) ==
    \/ a \notin ConceptIds(cs)
    \/ b \notin ConceptIds(cs)
    \/ <<a, b>> \in table

\* One try/except INSERT: state is [table, missing].
TryInsert(cs, st, a, b, reported) ==
    IF ConstraintViolated(cs, st.table, a, b)
    THEN [table |-> st.table, missing |-> st.missing \cup {reported}]
    ELSE [table |-> st.table \cup {<<a, b>>}, missing |-> st.missing]

RECURSIVE InsertSubconcepts(_, _, _, _)
\* for subconcept_id in data["subconcept_of"]: insert (wikibase_id, subconcept_id)
InsertSubconcepts(cs, st, id, refs) ==
    IF refs = <<>> THEN st
    ELSE InsertSubconcepts(cs, TryInsert(cs, st, id, Head(refs), Head(refs)),
                           id, Tail(refs))

\* if data["wikibase_id"] < related_id
RelatedGuard(id, related_id) == StrLess(id, related_id)

RECURSIVE InsertRelated(_, _, _, _)
\* for related_id in data["related_concepts"]: insert (wikibase_id, related_id)
InsertRelated(cs, st, id, refs) ==
    IF refs = <<>> THEN st
    ELSE InsertRelated(cs,
                       IF RelatedGuard(id, Head(refs))
                       THEN TryInsert(cs, st, id, Head(refs), Head(refs))
                       ELSE st,
                       id, Tail(refs))

RECURSIVE Sorted(_)
\* sorted(missing_concepts)
Sorted(S) ==
    IF S = {} THEN <<>>
    ELSE LET m == CHOOSE x \in S : \A y \in S \ {x} : StrLess(x, y)
         IN  <<m>> \o Sorted(S \ {m})

----------------------------------------------------------------------------
(* The ingestion script *)

NoResponse == [status |-> 0]
NoRequest == [op |-> "none"]
NoRun == [outcome |-> "none"]

Dataset ==
    [concepts |-> concepts, sub |-> concept_subconcept_relations,
     rel |-> concept_related_relations]

Outcome ==
    [outcome |-> pc, dataset |-> Dataset, missing |-> missing_concepts,
     report |-> report]

InitBuild ==
    /\ json_files \in Inputs
    /\ \E db \in {EmptyDataset, PriorDataset} :
          /\ concepts = db.concepts
          /\ concept_subconcept_relations = db.sub
          /\ concept_related_relations = db.rel
    /\ missing_concepts = {}
    /\ report = <<>>
    /\ pc = "start"
    /\ file_idx = 1
    /\ run = 1
    /\ prev_run = NoRun
    /\ conn = "none"
    /\ request = NoRequest
    /\ response = NoResponse

\* Lines 8-47: connect, drop the three tables, create them again.
DropAndCreate ==
    /\ pc = "start"
    /\ conn = "none"
    /\ LET db == DropAndCreateTables(Dataset)
       IN  /\ concepts' = db.concepts
           /\ concept_subconcept_relations' = db.sub
           /\ concept_related_relations' = db.rel
    /\ pc' = "pass1"
    /\ file_idx' = 1
    /\ UNCHANGED <<json_files, missing_concepts, report, run, prev_run, conn,
                   request, response>>

\* Lines 50-68: one iteration of the first loop.  The INSERT is not guarded:
\* a constraint violation ends the script.
FirstPass ==
    /\ pc = "pass1"
    /\ file_idx <= Len(json_files)
    /\ LET data == json_files[file_idx]
       IN  IF PrimaryKeyViolated(concepts, data)
           THEN /\ pc' = "aborted"
                /\ UNCHANGED <<concepts, file_idx>>
           ELSE /\ concepts' = concepts \cup {ConceptRow(data)}
                /\ file_idx' = file_idx + 1
                /\ pc' = pc
    /\ UNCHANGED <<json_files, concept_subconcept_relations,
                   concept_related_relations, missing_concepts, report, run,
                   prev_run, conn, request, response>>

\* Lines 70-71: the first loop is over; missing_concepts = set().
StartSecondPass ==
    /\ pc = "pass1"
    /\ file_idx > Len(json_files)
    /\ pc' = "pass2"
    /\ file_idx' = 1
    /\ missing_concepts' = {}
    /\ UNCHANGED <<json_files, concepts, concept_subconcept_relations,
                   concept_related_relations, report, run, prev_run, conn,
                   request, response>>

\* Lines 73-106: one iteration of the second loop.
SecondPass ==
    /\ pc = "pass2"
    /\ file_idx <= Len(json_files)
    /\ LET data == json_files[file_idx]
           s == InsertSubconcepts(concepts,
                    [table |-> concept_subconcept_relations,
                     missing |-> missing_concepts],
                    data.wikibase_id, data.subconcept_of)
           r == InsertRelated(concepts,
                    [table |-> concept_related_relations, missing |-> s.missing],
                    data.wikibase_id, data.related_concepts)
       IN  /\ concept_subconcept_relations' = s.table
           /\ concept_related_relations' = r.table
           /\ missing_concepts' = r.missing
    /\ file_idx' = file_idx + 1
    /\ UNCHANGED <<json_files, concepts, report, pc, run, prev_run, conn,
                   request, response>>

\* Lines 108-112: print the sorted report and finish.
PrintReport ==
    /\ pc = "pass2"
    /\ file_idx > Len(json_files)
    /\ report' = Sorted(missing_concepts)
    /\ pc' = "done"
    /\ UNCHANGED <<json_files, concepts, concept_subconcept_relations,
                   concept_related_relations, missing_concepts, file_idx, run,
                   prev_run, conn, request, response>>

\* The script is started again on the same directory: a new process, whose
\* connect needs the database file free of the service's connection.
Rerun ==
    /\ pc \in {"done", "aborted"}
    /\ run < MaxRuns
    /\ conn = "none"
    /\ prev_run' = Outcome
    /\ run' = run + 1
    /\ pc' = "start"
    /\ file_idx' = 1
    /\ missing_concepts' = {}
    /\ report' = <<>>
    /\ UNCHANGED <<json_files, concepts, concept_subconcept_relations,
                   concept_related_relations, conn, request, response>>

----------------------------------------------------------------------------
(* The query service: lifespan and GetConcept *)

\* lifespan, startup: conn = duckdb.connect("concepts.db", read_only=True).
\* The file is the one a finished (or crashed) ingestion run left.
Startup ==
    /\ conn = "none"
    /\ pc \in {"done", "aborted"}
    /\ conn' = "open"
    /\ UNCHANGED <<json_files, concepts, concept_subconcept_relations,
                   concept_related_relations, missing_concepts, report, pc,
                   file_idx, run, prev_run, request, response>>

\* lifespan, shutdown: conn.close(); the process and what it was answering end.
Shutdown ==
    /\ conn = "open"
    /\ conn' = "none"
    /\ request' = NoRequest
    /\ response' = NoResponse
    /\ UNCHANGED <<json_files, concepts, concept_subconcept_relations,
                   concept_related_relations, missing_concepts, report, pc,
                   file_idx, run, prev_run>>

\* The answer leaves; the handlers are async functions that never await, so
\* the event loop runs them one at a time, each to its end.
Reply ==
    /\ conn = "open"
    /\ request # NoRequest
    /\ request' = NoRequest
    /\ response' = NoResponse
    /\ UNCHANGED <<json_files, concepts, concept_subconcept_relations,
                   concept_related_relations, missing_concepts, report, pc,
                   file_idx, run, prev_run, conn>>

\* A result list is kept up to the order of its rows, as a function from
\* each fetched row to the number of times it was fetched.

\* SELECT c.* FROM concepts c JOIN concept_related_relations r
\*   ON c.wikibase_id = r.concept_id2 OR c.wikibase_id = r.concept_id1
\*   WHERE r.concept_id1 = ? OR r.concept_id2 = ?
RelatedQuery(cs, rel, concept_id) ==
    LET n(c) == Cardinality({r \in rel :
                    /\ (c.wikibase_id = r[2] \/ c.wikibase_id = r[1])
                    /\ (r[1] = concept_id \/ r[2] = concept_id)})
    IN  [c \in {d \in cs : n(d) > 0} |-> n(c)]

\* SELECT c.* FROM concepts c JOIN concept_subconcept_relations r
\*   ON c.wikibase_id = r.subconcept_id WHERE r.concept_id = ?
SubconceptsQuery(cs, sub, concept_id) ==
    LET n(c) == Cardinality({r \in sub :
                    /\ c.wikibase_id = r[2]
                    /\ r[1] = concept_id})
    IN  [c \in {d \in cs : n(d) > 0} |-> n(c)]

\* get_concept(concept_id)
GetConceptResult(cs, sub, rel, concept_id) ==
    LET rows == {c \in cs : c.wikibase_id = concept_id}
    IN  IF rows = {}
        THEN [status |-> 404, detail |-> "Concept not found"]
        ELSE [status |-> 200,
              concept |-> CHOOSE c \in rows : TRUE,
              related_concepts |-> RelatedQuery(cs, rel, concept_id),
              subconcepts |-> SubconceptsQuery(cs, sub, concept_id)]

GetConcept(concept_id) ==
    /\ conn = "open"
    /\ request = NoRequest
    /\ request' = [op |-> "get_concept", concept_id |-> concept_id]
    /\ response' = GetConceptResult(concepts, concept_subconcept_relations,
                                    concept_related_relations, concept_id)
    /\ UNCHANGED <<json_files, concepts, concept_subconcept_relations,
                   concept_related_relations, missing_concepts, report, pc,
                   file_idx, run, prev_run, conn>>

Init == InitBuild

Next ==
    \/ DropAndCreate
    \/ FirstPass
    \/ StartSecondPass
    \/ SecondPass
    \/ PrintReport
    \/ Rerun
    \/ Startup
    \/ Shutdown
    \/ Reply
    \/ \E concept_id \in IdUniverse \cup {Q0} : GetConcept(concept_id)

Spec == Init /\ [][Next]_vars

----------------------------------------------------------------------------
(* The query service: SearchConcepts *)

MaxLabelLen == 2   \* characters of a preferred_label
MaxQueryLen == 1   \* characters of the query string q
MaxLimit == 1      \* the limit parameter

LabelChars == {"a", "A", "b"}
QueryChars == {"a", "%", "_"}

\* The datasets the service searches: one row for each id of some ids.
SearchDatasets ==
    LET labels == SeqsUpTo(LabelChars, MaxLabelLen)
    IN  UNION {{{[wikibase_id |-> id, preferred_label |-> f[id][1],
                  has_classifier |-> f[id][2]] : id \in ids} :
                    f \in [ids -> labels \X BOOLEAN]} :
                        ids \in SUBSET {Q1, Q2}}

\* Case folding of one character, as ILIKE folds both sides.
LowerChar(c) == IF c = "A" THEN "a" ELSE c

Lower(s) == [i \in 1..Len(s) |-> LowerChar(s[i])]

RECURSIVE Like(_, _)
\* s LIKE p: % matches any run of characters, _ any one character.
Like(s, p) ==
    IF p = <<>> THEN s = <<>>
    ELSE IF Head(p) = "%"
         THEN Like(s, Tail(p)) \/ (s # <<>> /\ Like(Tail(s), p))
    ELSE IF s = <<>> THEN FALSE
    ELSE IF Head(p) = "_" THEN Like(Tail(s), Tail(p))
    ELSE Head(s) = Head(p) /\ Like(Tail(s), Tail(p))

\* preferred_label ILIKE ?, bound to f"{q}%"
ILike(label, pattern) == Like(Lower(label), Lower(pattern))

PrefixPattern(q) == q \o <<"%">>

\* The value the handler's has_classifier parameter takes: `= False` when the
\* request does not carry it.
BindHasClassifier(has_classifier) ==
    IF has_classifier = "absent" THEN "false" ELSE has_classifier

\* The WHERE clause of the branch search_concepts takes.
SearchWhere(c, q, has_classifier) ==
    /\ q # <<>> => ILike(c.preferred_label, PrefixPattern(q))
    /\ has_classifier # "none" => c.has_classifier = (has_classifier = "true")

\* LIMIT ? without ORDER BY: any `limit` of the matching rows.
LimitChoices(rows, limit) ==
    {res \in SUBSET rows :
        Cardinality(res) = IF Cardinality(rows) < limit THEN Cardinality(rows) ELSE limit}

\* Lines 134-142: the rows when there are some, else 404.
EmptyListResponse(rows) == [status |-> 200, body |-> rows]
SearchResponse(rows) ==
    IF rows # {}
    THEN [status |-> 200, body |-> rows]
    ELSE [status |-> 404, detail |-> "No results found"]

\* search_concepts(q, limit, has_classifier)
SearchConcepts(q, limit, has_classifier) ==
    /\ conn = "open"
    /\ request = NoRequest
    /\ LET hc == BindHasClassifier(has_classifier)
           matching == {c \in concepts : SearchWhere(c, q, hc)}
       IN  \E rows \in LimitChoices(matching, limit) :
               response' = SearchResponse(rows)
    /\ request' = [op |-> "search", q |-> q, limit |-> limit,
                   has_classifier |-> has_classifier]
    /\ UNCHANGED <<json_files, concepts, concept_subconcept_relations,
                   concept_related_relations, missing_concepts, report, pc,
                   file_idx, run, prev_run, conn>>

\* A dataset in concepts.db and the service not yet started.
InitService(datasets) ==
    /\ concepts \in datasets
    /\ json_files = <<>>
    /\ concept_subconcept_relations = {}
    /\ concept_related_relations = {}
    /\ missing_concepts = {}
    /\ report = <<>>
    /\ pc = "done"
    /\ file_idx = 1
    /\ run = 1
    /\ prev_run = NoRun
    /\ conn = "none"
    /\ request = NoRequest
    /\ response = NoResponse

InitSearch == InitService(SearchDatasets)

NextSearch ==
    \/ Startup
    \/ Shutdown
    \/ Reply
    \/ \E q \in SeqsUpTo(QueryChars, MaxQueryLen), limit \in 0..MaxLimit,
          has_classifier \in {"absent", "none", "true", "false"} :
            SearchConcepts(q, limit, has_classifier)

SpecSearch == InitSearch /\ [][NextSearch]_vars

----------------------------------------------------------------------------
(* The query service: BatchGetConcepts *)

MaxIds == 2        \* identifiers in one batch request
MaxIdLen == 3      \* characters of an identifier

BatchChars == {"a", "'", ","}

BatchRows ==
    {[wikibase_id |-> id, preferred_label |-> <<"F">>, has_classifier |-> FALSE] :
        id \in {<<"a">>, <<"a", "a">>, <<"a", "'">>}}

RECURSIVE Join(_)
\* ",".join([f"'{id}'" for id in dto.ids])
Join(ids) ==
    IF ids = <<>> THEN <<>>
    ELSE <<"'">> \o Head(ids) \o <<"'">>
         \o (IF Tail(ids) = <<>> THEN <<>> ELSE <<",">> \o Join(Tail(ids)))

RECURSIVE ParseInList(_, _, _, _)
\* The SQL parser on the text between IN ( and ): a comma-separated list of
\* string literals, '' inside a literal standing for one quote.  Anything else
\* (a bare word, an empty item, an unterminated literal) is an error.
\* mode: "item" before a literal, "lit" inside one, "after" behind one.
ParseInList(text, mode, acc, lits) ==
    IF text = <<>>
    THEN IF mode = "after" THEN [ok |-> TRUE, lits |-> lits]
         ELSE [ok |-> FALSE, lits |-> {}]
    ELSE
      CASE mode = "item" ->
             IF Head(text) = "'" THEN ParseInList(Tail(text), "lit", <<>>, lits)
             ELSE [ok |-> FALSE, lits |-> {}]
        [] mode = "lit" ->
             IF Head(text) # "'"
             THEN ParseInList(Tail(text), "lit", Append(acc, Head(text)), lits)
             ELSE IF Tail(text) # <<>> /\ Head(Tail(text)) = "'"
             THEN ParseInList(Tail(Tail(text)), "lit", Append(acc, "'"), lits)
             ELSE ParseInList(Tail(text), "after", <<>>, lits \cup {acc})
        [] mode = "after" ->
             IF Head(text) = "," THEN ParseInList(Tail(text), "item", <<>>, lits)
             ELSE [ok |-> FALSE, lits |-> {}]

\* batch_search_concepts(dto)
BatchResult(cs, ids) ==
    IF ids = <<>>
    THEN [status |-> 400, detail |-> "No IDs provided"]
    ELSE LET parsed == ParseInList(Join(ids), "item", <<>>, {})
         IN  IF parsed.ok
             THEN [status |-> 200,
                   body |-> {c \in cs : c.wikibase_id \in parsed.lits}]
             ELSE [status |-> 500, detail |-> "Database query failed"]

BatchSearchConcepts(ids) ==
    /\ conn = "open"
    /\ request = NoRequest
    /\ request' = [op |-> "batch_search", ids |-> ids]
    /\ response' = BatchResult(concepts, ids)
    /\ UNCHANGED <<json_files, concepts, concept_subconcept_relations,
                   concept_related_relations, missing_concepts, report, pc,
                   file_idx, run, prev_run, conn>>

InitBatch == InitService(SUBSET BatchRows)

NextBatch ==
    \/ Startup
    \/ Shutdown
    \/ Reply
    \/ \E ids \in SeqsUpTo(SeqsUpTo(BatchChars, MaxIdLen), MaxIds) :
            BatchSearchConcepts(ids)

SpecBatch == InitBatch /\ [][NextBatch]_vars

----------------------------------------------------------------------------
(* Properties *)

Finished == pc \in {"done", "aborted"}

Ingested(id) == id \in ConceptIds(concepts)

Documents_of(id) == {d \in Range(json_files) : d.wikibase_id = id}

\* C1: with the ingestion complete, GetConcept(x).subconcepts holds the row of
\* every document that names x (another id) in its subconcept_of, and holds
\* no parent a of x unless a's own document names x as its parent.
C1_SubconceptDirection ==
    (pc = "done" /\ request.op = "get_concept" /\ response.status = 200) =>
        LET x == request.concept_id
            listed == DOMAIN response.subconcepts
        IN  /\ \A b \in Range(json_files) :
                  (b.wikibase_id # x /\ x \in Range(b.subconcept_of))
                      => ConceptRow(b) \in listed
            /\ \A d \in Documents_of(x) : \A a \in Range(d.subconcept_of) :
                  (a # x /\ \A e \in Documents_of(a) : x \notin Range(e.subconcept_of))
                      => a \notin ConceptIds(listed)

\* C2: GetConcept(x).related_concepts holds exactly the rows of the other
\* endpoints y # x of the stored related edges x is an endpoint of.
C2_RelatedOtherEndpoints ==
    (request.op = "get_concept" /\ response.status = 200) =>
        LET x == request.concept_id
        IN  DOMAIN response.related_concepts =
                {c \in concepts :
                    /\ c.wikibase_id # x
                    /\ \/ <<x, c.wikibase_id>> \in concept_related_relations
                       \/ <<c.wikibase_id, x>> \in concept_related_relations}

\* C3: BatchGetConcepts of a non-empty list succeeds and returns exactly the
\* concepts whose id is an element of the list.
C3_BatchExactMembership ==
    (request.op = "batch_search" /\ request.ids # <<>>) =>
        /\ response.status = 200
        /\ response.body = {c \in concepts : c.wikibase_id \in Range(request.ids)}

\* C4: no input makes the ingestion stop before both passes are over.
C4_BuildNeverAborts == pc # "aborted"

StartsWithCI(label, q) ==
    /\ Len(q) <= Len(label)
    /\ Lower(SubSeq(label, 1, Len(q))) = Lower(q)

\* C5: for a non-empty q and a limit n > 0, every concept SearchConcepts
\* returns has a preferred label starting with q (case-insensitively), and at
\* most n are returned.
C5_PrefixAndLimit ==
    (/\ request.op = "search"
     /\ request.q # <<>>
     /\ request.limit > 0
     /\ response.status = 200) =>
        /\ \A c \in response.body : StartsWithCI(c.preferred_label, request.q)
        /\ Cardinality(response.body) <= request.limit

\* C6, as claimed: a SearchConcepts call that matches no concept succeeds with
\* the empty result.
C6_EmptySearchIsSuccess ==
    (/\ request.op = "search"
     /\ request.limit > 0
     /\ \A c \in concepts :
            ~SearchWhere(c, request.q, BindHasClassifier(request.has_classifier))) =>
        /\ response.status = 200
        /\ response.body = {}

SelectedBySearch ==
    IF request.limit = 0 THEN {}
    ELSE {c \in concepts :
            SearchWhere(c, request.q, BindHasClassifier(request.has_classifier))}

\* C6, amended: a SearchConcepts call whose query selects no row is answered
\* NotFound (404), and a successful answer always carries at least one of the
\* selected concepts.
C6_EmptySearchIsNotFound ==
    request.op = "search" =>
        /\ SelectedBySearch = {} => response.status = 404
        /\ response.status # 404 =>
              /\ response.status = 200
              /\ response.body # {}
              /\ response.body \subseteq SelectedBySearch

\* A search over a non-empty dataset that selected nothing has been answered.
C6_Witness ==
    /\ request.op = "search"
    /\ request.limit > 0
    /\ concepts # {}
    /\ response.status = 404

\* C7: when has_classifier is not supplied, every concept whose label matches
\* the query, whatever its flag, is returned unless the limit is used up.
C7_NoFilterWhenNotSupplied ==
    (/\ request.op = "search"
     /\ request.has_classifier = "absent"
     /\ request.limit > 0) =>
        \A c \in concepts :
            (request.q # <<>> => ILike(c.preferred_label, PrefixPattern(request.q)))
                => /\ response.status = 200
                   /\ c \in response.body
                        \/ Cardinality(response.body) = request.limit

\* What the input documents can put into the dataset.
FromInput ==
    /\ concepts \subseteq {ConceptRow(d) : d \in Range(json_files)}
    /\ \A e \in concept_subconcept_relations :
          \E d \in Documents_of(e[1]) : e[2] \in Range(d.subconcept_of)
    /\ \A e \in concept_related_relations :
          \E d \in Documents_of(e[1]) : e[2] \in Range(d.related_concepts)

\* C8: a finished run leaves nothing but what the input gives, and a run on
\* the same input after it leaves the same concepts, the same edges of both
\* kinds and the same report.
C8_RebuildIdempotent ==
    Finished =>
        /\ FromInput
        /\ run > 1 => Outcome = prev_run

\* The second run is over, with concepts, an edge and a reported id.
C8_Witness ==
    /\ run = 2
    /\ pc = "done"
    /\ concepts # {}
    /\ prev_run.outcome = "done"
    /\ \/ concept_subconcept_relations # {}
       \/ concept_related_relations # {}
       \/ report # <<>>

CanonicalPair(a, b) == IF StrLess(a, b) THEN <<a, b>> ELSE <<b, a>>

\* C9: with the ingestion complete, whenever a document r lists s # r in its
\* related_concepts and both are ingested, the related relation holds the
\* pair (min(r, s), max(r, s)).
C9_CanonicalPairStored ==
    pc = "done" =>
        \A d \in Range(json_files) : \A s \in Range(d.related_concepts) :
            (s # d.wikibase_id /\ Ingested(d.wikibase_id) /\ Ingested(s))
                => CanonicalPair(d.wikibase_id, s) \in concept_related_relations

\* C10: no row of the subconcept relation has equal endpoints.
C10_NoSelfSubconcept ==
    \A e \in concept_subconcept_relations : e[1] # e[2]

====
